---- MODULE Spec2Model ----
(***************************************************************************)
(* QuizIt: the SM-2 scheduler, the priority ranker and the status          *)
(* classifier of js/srs-algorithm.js (class SRSAlgorithm), the test mode   *)
(* of StudyModesManager in the same file, and the stores and statistics of *)
(* QuizItDB (db.js).                                                       *)
(*                                                                         *)
(* Number representation.  The code computes with JavaScript numbers.      *)
(*   - easeFactor is kept in hundredths (2.5 is 250, 1.3 is 130); every    *)
(*     ease delta of an integer quality is a whole number of hundredths.   *)
(*   - timestamps (Date.now(), nextReview) are counted in hours instead of *)
(*     milliseconds, so the code's day, 24 * 60 * 60 * 1000 ms, is 24.     *)
(*   - a priority score is kept multiplied by PriorityScale, which makes   *)
(*     every term of getCardPriority an integer.                           *)
(***************************************************************************)
EXTENDS Integers, Sequences, FiniteSets, Bags, TLC

VARIABLES
    now,        \* the value Date.now() returns
    card,       \* the card object handed to the SRSAlgorithm functions
    deck,       \* the array handed to sortCardsByPriority
    op,         \* the function that was called last
    arg,        \* its numeric argument (quality, simple rating)
    prevCard,   \* the card as it was when the last call was made
    prevDeck,   \* the array as it was when the last sort was called
    ret,        \* the number returned by mapSimpleRatingToQuality
    cardStatus, \* the object returned by getCardStudyStatus
    calls,      \* number of calculateNextReview calls made so far
    \* QuizItDB: the object stores of one set
    dbCards,        \* 'cards' store: the cards of the set, by id
    sessions,       \* 'sessions' store
    performance,    \* 'cardPerformance' store
    setStats,       \* the object returned by getSetStatistics
    \* StudyModesManager
    mode,           \* this.mode
    cards,          \* this.cards
    testTargetCount,\* this.testTargetCount; 0 stands for null
    testCards,      \* this.testCards
    currentIndex,   \* this.currentIndex
    correctCards,   \* this.correctCards
    incorrectCards, \* this.incorrectCards
    stats,          \* this.stats
    sessionId,      \* this.sessionId; 0 stands for null
    phase,          \* how far init() / the session has come
    redirect,       \* window.location.href has been set to index.html
    submitVisible,  \* the submitTest button is displayed
    nextVisible,    \* the nextTest button is displayed
    answer,         \* the answer entered for the question on display
    pending,        \* checkTestAnswer calls suspended at an await
    presented,      \* number of showTestQuestion calls that displayed a card
    lastDraw,       \* what the last selectAdditionalCards call drew
    resubmits       \* number of submit clicks on an already submitted answer

srsVars == <<card, deck, arg, prevCard, prevDeck, ret, cardStatus, calls>>

dbVars == <<dbCards, sessions, performance, setStats>>

managerVars ==
    <<mode, cards, testTargetCount, testCards, currentIndex, correctCards,
      incorrectCards, stats, sessionId, phase, redirect, submitVisible,
      nextVisible, answer, pending, presented, lastDraw, resubmits>>

vars == <<now, op, srsVars, dbVars, managerVars>>

-----------------------------------------------------------------------------
(* Bounds of the model *)

MaxCalls == 2          \* calculateNextReview calls in one behaviour
QualityMargin == 1     \* qualities range over -QualityMargin .. 5+QualityMargin
MaxRating == 6         \* simple ratings range over -1 .. MaxRating
MaxDeck == 3           \* longest array handed to sortCardsByPriority
MaxTicks == 3          \* the clock runs over 0 .. MaxTicks half days
MaxPool == 2           \* most cards in the set that is studied
MaxTarget == 6         \* largest count parameter of a test session
MaxSubmits == 6        \* submit clicks in one session, questions and repeats
MaxReviews == 6        \* reviews of one card from its creation
MaxSessions == 2       \* most session records of the set in the sessions store
MaxRatings == 2        \* rating clicks in one flashcards session

-----------------------------------------------------------------------------
(* Units *)

HoursPerDay == 24
HalfDay == HoursPerDay \div 2
PriorityScale == HoursPerDay * 25

Max(a, b) == IF a >= b THEN a ELSE b
Min(a, b) == IF a <= b THEN a ELSE b
Abs(a) == IF a < 0 THEN 0 - a ELSE a

\* Math.round of the non-negative quotient n / d
Round(n, d) == (2 * n + d) \div (2 * d)

-----------------------------------------------------------------------------
(* SRSAlgorithm.calculateNextReview *)

\* quality = Math.max(0, Math.min(5, quality))
ClampQuality_unclamped(quality) == quality

ClampQuality(quality) == Max(0, Min(5, quality))

\* repetitions after the branch on quality < 3
NextRepetitions(c, q) ==
    IF q < 3 THEN 0 ELSE c.repetitions + 1

\* easeFactor + (0.1 - (5 - q) * (0.08 + (5 - q) * 0.02)), then Math.max(1.3, .)
NextEaseFactor_noFloor(c, q) ==
    c.easeFactor + (10 - (5 - q) * (8 + (5 - q) * 2))

NextEaseFactor_linear(c, q) ==
    Max(130, c.easeFactor + (10 - (5 - q) * 8))

NextEaseFactor(c, q) ==
    Max(130, c.easeFactor + (10 - (5 - q) * (8 + (5 - q) * 2)))

\* interval after the branch on quality < 3; reps is the updated repetitions
NextInterval_keepsOnFailure(c, q, reps) ==
    IF q < 3 THEN c.interval
    ELSE IF reps = 1 THEN 1
    ELSE IF reps = 2 THEN 6
    ELSE Round(c.interval * c.easeFactor, 100)

NextInterval_updatedEase(c, q, reps) ==
    IF q < 3 THEN 0
    ELSE IF reps = 1 THEN 1
    ELSE IF reps = 2 THEN 6
    ELSE Round(c.interval * NextEaseFactor(c, q), 100)

NextInterval_floor(c, q, reps) ==
    IF q < 3 THEN 0
    ELSE IF reps = 1 THEN 1
    ELSE IF reps = 2 THEN 6
    ELSE (c.interval * c.easeFactor) \div 100

NextInterval(c, q, reps) ==
    IF q < 3 THEN 0
    ELSE IF reps = 1 THEN 1
    ELSE IF reps = 2 THEN 6
    ELSE Round(c.interval * c.easeFactor, 100)

calculateNextReview_dueFromOldInterval(c, quality, t) ==
    LET q        == ClampQuality(quality)
        reps     == NextRepetitions(c, q)
        interval == NextInterval(c, q, reps)
        ease     == NextEaseFactor(c, q)
    IN  [c EXCEPT !.easeFactor = ease,
                  !.interval = interval,
                  !.repetitions = reps,
                  !.nextReview = t + c.interval * HoursPerDay]

calculateNextReview(c, quality, t) ==
    LET q        == ClampQuality(quality)
        reps     == NextRepetitions(c, q)
        interval == NextInterval(c, q, reps)
        ease     == NextEaseFactor(c, q)
    IN  [c EXCEPT !.easeFactor = ease,
                  !.interval = interval,
                  !.repetitions = reps,
                  !.nextReview = t + interval * HoursPerDay]

-----------------------------------------------------------------------------
(* SRSAlgorithm.getCardPriority, sortCardsByPriority *)

getCardPriority_absOverdue(c, t) ==
    LET since == t - c.nextReview
    IN  (Abs(since) * PriorityScale) \div HoursPerDay
        + ((300 - c.easeFactor) * 5 * PriorityScale) \div 100
        + ((10 - c.repetitions) * PriorityScale) \div 2

\* daysSinceReview = since / HoursPerDay; the score is times PriorityScale
getCardPriority(c, t) ==
    LET since == t - c.nextReview
        overdue == IF since > 0
                   THEN 0 - (since * 10 * PriorityScale) \div HoursPerDay
                   ELSE (Abs(since) * PriorityScale) \div HoursPerDay
    IN  overdue
        + ((300 - c.easeFactor) * 5 * PriorityScale) \div 100
        + ((10 - c.repetitions) * PriorityScale) \div 2

\* the comparator (a, b) => getCardPriority(a) - getCardPriority(b)
ComparePriority(a, b, t) == getCardPriority(a, t) - getCardPriority(b, t)

\* Array.prototype.sort is a stable sort: c goes behind every element that
\* does not compare greater than c
RECURSIVE InsertByPriority_beforeTies(_, _, _)
InsertByPriority_beforeTies(c, s, t) ==
    IF s = << >> THEN << c >>
    ELSE IF ComparePriority(Head(s), c, t) < 0
         THEN << Head(s) >> \o InsertByPriority_beforeTies(c, Tail(s), t)
         ELSE << c >> \o s

RECURSIVE InsertByPriority(_, _, _)
InsertByPriority(c, s, t) ==
    IF s = << >> THEN << c >>
    ELSE IF ComparePriority(Head(s), c, t) <= 0
         THEN << Head(s) >> \o InsertByPriority(c, Tail(s), t)
         ELSE << c >> \o s

RECURSIVE sortCardsByPriority(_, _)
sortCardsByPriority(arr, t) ==
    IF arr = << >> THEN << >>
    ELSE LET n == Len(arr)
         IN  InsertByPriority(arr[n], sortCardsByPriority(SubSeq(arr, 1, n - 1), t), t)

-----------------------------------------------------------------------------
(* SRSAlgorithm.isCardDue, getCardStudyStatus, mapSimpleRatingToQuality *)

isCardDue_strict(c, t) == c.nextReview < t

isCardDue(c, t) == c.nextReview <= t

getCardStudyStatus_dueFirst(c, t) ==
    LET isNew == c.repetitions = 0
        isDue == isCardDue(c, t)
    IN  [status     |-> IF isDue THEN "review"
                        ELSE IF isNew THEN "new"
                        ELSE "learning",
         difficulty |-> IF c.easeFactor >= 250 THEN "easy"
                        ELSE IF c.easeFactor >= 200 THEN "medium"
                        ELSE "hard",
         mastery    |-> IF c.repetitions < 3 THEN 33
                        ELSE IF c.repetitions < 6 THEN 66
                        ELSE 100,
         isNew      |-> isNew,
         isDue      |-> isDue]

getCardStudyStatus(c, t) ==
    LET isNew == c.repetitions = 0
        isDue == isCardDue(c, t)
    IN  [status     |-> IF isNew THEN "new"
                        ELSE IF isDue THEN "review"
                        ELSE "learning",
         difficulty |-> IF c.easeFactor >= 250 THEN "easy"
                        ELSE IF c.easeFactor >= 200 THEN "medium"
                        ELSE "hard",
         mastery    |-> IF c.repetitions = 0 THEN 0
                        ELSE IF c.repetitions < 3 THEN 33
                        ELSE IF c.repetitions < 6 THEN 66
                        ELSE 100,
         isNew      |-> isNew,
         isDue      |-> isDue]

\* const mapping = { 1: 0, 2: 3, 3: 4, 4: 5 }
RatingMapping == (1 :> 0) @@ (2 :> 3) @@ (3 :> 4) @@ (4 :> 5)

\* mapping[simpleRating] || 3: the right operand is taken when the left one
\* is undefined (no such key) or falsy, and 0 is falsy
mapSimpleRatingToQuality(simpleRating) ==
    IF simpleRating \in DOMAIN RatingMapping /\ RatingMapping[simpleRating] # 0
    THEN RatingMapping[simpleRating]
    ELSE 3

-----------------------------------------------------------------------------
(* The states a stored card can be in: created with the defaults, written  *)
(* back by the scheduler, or imported with the values of the file          *)
(* (app.js, handleImportSetFile).                                          *)

EaseFactors == {110, 130, 200, 250}
Intervals == {0, 6}
Repetitions == {0, 1, 2, 5}
ReviewTimes == {0, HoursPerDay + HalfDay}

Qualities == (0 - QualityMargin) .. (5 + QualityMargin)
Ratings == (0 - 1) .. MaxRating

\* db.createCard
createCard(id, t) ==
    [id |-> id, front |-> "term", easeFactor |-> 250, interval |-> 0,
     repetitions |-> 0, nextReview |-> t]

ItemStates ==
    [id : {1}, front : {"term"}, easeFactor : EaseFactors,
     interval : Intervals, repetitions : Repetitions, nextReview : ReviewTimes]

NoStatus ==
    [status |-> "none", difficulty |-> "none", mastery |-> 0,
     isNew |-> FALSE, isDue |-> FALSE]

\* no study page is open and the stores are empty
NoDraw ==
    [count |-> 0, fromIncorrect |-> << >>, fromCorrect |-> << >>,
     fromPool |-> << >>]

NoStats == [cardsStudied |-> 0, correctCount |-> 0, incorrectCount |-> 0]

NoSetStats ==
    [totalCards |-> 0, totalSessions |-> 0,
     accuracy |-> [num |-> 0, den |-> 1],
     masteryLevel |-> [num |-> 0, den |-> 1],
     totalCorrect |-> 0, totalIncorrect |-> 0]

NoManager ==
    /\ cards = << >>
    /\ testCards = << >>
    /\ currentIndex = 0
    /\ correctCards = << >>
    /\ incorrectCards = << >>
    /\ stats = NoStats
    /\ sessionId = 0
    /\ redirect = FALSE
    /\ submitVisible = FALSE
    /\ nextVisible = FALSE
    /\ answer = "none"
    /\ pending = << >>
    /\ presented = 0
    /\ lastDraw = NoDraw
    /\ resubmits = 0

NoSession ==
    /\ dbCards = << >>
    /\ sessions = << >>
    /\ performance = << >>
    /\ setStats = NoSetStats
    /\ phase = "closed"
    /\ mode = "none"
    /\ testTargetCount = 0
    /\ NoManager

Init ==
    /\ now = HoursPerDay
    /\ card \in ItemStates \cup {createCard(1, HoursPerDay)}
    /\ deck = << >>
    /\ op = "init"
    /\ arg = 0
    /\ prevCard = card
    /\ prevDeck = << >>
    /\ ret = 0
    /\ cardStatus = NoStatus
    /\ calls = 0
    /\ NoSession

\* Date.now() moves on
Tick ==
    /\ now < MaxTicks * HalfDay
    /\ now' = now + HalfDay
    /\ op' = "tick"
    /\ UNCHANGED <<card, deck, arg, prevCard, prevDeck, ret, cardStatus, calls>>
    /\ UNCHANGED <<dbVars, managerVars>>

\* card = SRSAlgorithm.calculateNextReview(card, quality)
CalculateNextReview(quality) ==
    /\ calls < MaxCalls
    /\ calls' = calls + 1
    /\ prevCard' = card
    /\ arg' = quality
    /\ card' = calculateNextReview(card, quality, now)
    /\ op' = "calculateNextReview"
    /\ UNCHANGED <<now, deck, prevDeck, ret, cardStatus>>
    /\ UNCHANGED <<dbVars, managerVars>>

\* SRSAlgorithm.mapSimpleRatingToQuality(rating)
MapSimpleRatingToQuality(rating) ==
    /\ arg' = rating
    /\ ret' = mapSimpleRatingToQuality(rating)
    /\ op' = "mapSimpleRatingToQuality"
    /\ UNCHANGED <<now, card, deck, prevCard, prevDeck, cardStatus, calls>>
    /\ UNCHANGED <<dbVars, managerVars>>

\* SRSAlgorithm.getCardStudyStatus(card)
GetCardStudyStatus ==
    /\ cardStatus' = getCardStudyStatus(card, now)
    /\ prevCard' = card
    /\ op' = "getCardStudyStatus"
    /\ UNCHANGED <<now, card, deck, arg, prevDeck, ret, calls>>
    /\ UNCHANGED <<dbVars, managerVars>>

Next ==
    \/ Tick
    \/ \E quality \in Qualities : CalculateNextReview(quality)
    \/ \E rating \in Ratings : MapSimpleRatingToQuality(rating)
    \/ GetCardStudyStatus

Spec == Init /\ [][Next]_vars

-----------------------------------------------------------------------------
(* The arrays handed to sortCardsByPriority: cards 1..n of a set, in any   *)
(* stored state.  240/250 with 1/0 repetitions gives two different cards   *)
(* of equal score.                                                         *)

RankEaseFactors == {130, 240, 250}
RankRepetitions == {0, 1}
RankReviewTimes == {HalfDay, 3 * HalfDay}

RankCard(id) ==
    [id : {id}, front : {"term"}, easeFactor : RankEaseFactors,
     interval : {1}, repetitions : RankRepetitions,
     nextReview : RankReviewTimes]

Decks ==
    UNION {{d \in [1 .. n -> UNION {RankCard(i) : i \in 1 .. n}] :
               \A i \in 1 .. n : d[i].id = i} : n \in 1 .. MaxDeck}

InitRank ==
    /\ now = 0
    /\ card = createCard(1, 0)
    /\ deck \in Decks
    /\ op = "init"
    /\ arg = 0
    /\ prevCard = card
    /\ prevDeck = deck
    /\ ret = 0
    /\ cardStatus = NoStatus
    /\ calls = 0
    /\ NoSession

\* cards = SRSAlgorithm.sortCardsByPriority(cards)
SortCardsByPriority ==
    /\ prevDeck' = deck
    /\ deck' = sortCardsByPriority(deck, now)
    /\ op' = "sortCardsByPriority"
    /\ UNCHANGED <<now, card, arg, prevCard, ret, cardStatus, calls>>
    /\ UNCHANGED <<dbVars, managerVars>>

NextRank ==
    \/ Tick
    \/ SortCardsByPriority

SpecRank == InitRank /\ [][NextRank]_vars

-----------------------------------------------------------------------------
(* Properties of calculateNextReview (specification Spec) *)

Reviewed == op = "calculateNextReview"

\* C1: for every card state and every quality below 3 (after clamping to
\* 0..5) calculateNextReview returns repetitions 0 and interval 0, whatever
\* easeFactor, interval and repetitions the card had.
C1_FailureResetsSchedule ==
    (Reviewed /\ arg < 3) => (card.repetitions = 0 /\ card.interval = 0)

C1_Witness ==
    /\ Reviewed /\ arg < 3
    /\ prevCard.repetitions > 0 /\ prevCard.interval > 0
    /\ card.repetitions = 0 /\ card.interval = 0

\* C2: for every quality of 3 or more, repetitions grows by one and the
\* interval is 1 for the first repetition, 6 for the second, and otherwise
\* interval * easeFactor of the card before the call, rounded half up.
C2_SuccessAdvancesSchedule ==
    (Reviewed /\ arg >= 3) =>
        /\ card.repetitions = prevCard.repetitions + 1
        /\ card.repetitions = 1 => card.interval = 1
        /\ card.repetitions = 2 => card.interval = 6
        /\ card.repetitions \notin {1, 2} =>
              LET product == prevCard.interval * prevCard.easeFactor
              IN  /\ 100 * card.interval - 50 <= product
                  /\ product < 100 * card.interval + 50

C2_Witness ==
    /\ Reviewed /\ arg = 3
    /\ prevCard.repetitions >= 2 /\ prevCard.interval > 0
    /\ card.easeFactor < prevCard.easeFactor
    /\ card.interval > prevCard.interval

\* the ease change of each quality, in hundredths:
\* 0.1 - (5 - q) * (0.08 + (5 - q) * 0.02)
EaseDelta(q) ==
    CASE q = 5 -> 10
      [] q = 4 -> 0
      [] q = 3 -> 0 - 14
      [] q = 2 -> 0 - 32
      [] q = 1 -> 0 - 54
      [] q = 0 -> 0 - 80

\* C3: for every quality in 0..5 the returned easeFactor is
\* max(1.3, easeFactor + 0.1 - (5-q)*(0.08 + (5-q)*0.02)), and the
\* easeFactor is at least 1.3 after every call of every sequence of calls.
C3_EaseFactorFormulaAndFloor ==
    Reviewed =>
        /\ card.easeFactor >= 130
        /\ arg \in 0 .. 5 =>
              card.easeFactor = Max(130, prevCard.easeFactor + EaseDelta(arg))

C3_Witness ==
    /\ Reviewed /\ calls >= 2 /\ arg \in 0 .. 5
    /\ prevCard.easeFactor + EaseDelta(arg) < 130
    /\ card.easeFactor = 130

\* C4: the simplified rating maps 1->0, 2->3, 3->4, 4->5 and every other
\* value to 3; in particular rating 1 ("Again") gives quality 0, a failure.
C4_SimpleRatingMapping ==
    op = "mapSimpleRatingToQuality" =>
        ret = CASE arg = 1 -> 0
                [] arg = 2 -> 3
                [] arg = 3 -> 4
                [] arg = 4 -> 5
                [] OTHER -> 3

ScenarioC ==
    /\ Reviewed /\ arg = 1
    /\ prevCard.easeFactor = 200
    /\ prevCard.interval = 6
    /\ prevCard.repetitions = 2

\* C5 as stated: quality 1 on {ease 2.0, interval 6, repetitions 2} gives
\* repetitions 0, interval 0 and easeFactor 1.3.
C5_ScenarioC_Stated ==
    ScenarioC =>
        (card.repetitions = 0 /\ card.interval = 0 /\ card.easeFactor = 130)

\* C5: quality 1 on {ease 2.0, interval 6, repetitions 2} gives
\* repetitions 0, interval 0 and easeFactor max(1.3, 2.0 - 0.54) = 1.46.
C5_ScenarioC ==
    ScenarioC =>
        (card.repetitions = 0 /\ card.interval = 0 /\ card.easeFactor = 146)

C5_Witness == ScenarioC /\ card.easeFactor = 146

-----------------------------------------------------------------------------
(* Properties of getCardPriority and sortCardsByPriority (SpecRank) *)

Sorted == op = "sortCardsByPriority"

Positions == 1 .. Len(deck)

\* the index of the card with this id in an array
PositionOf(arr, id) == CHOOSE k \in 1 .. Len(arr) : arr[k].id = id

\* C6: of two cards with the same nextReview and repetitions, the one with
\* the lower easeFactor has the lower score and is placed earlier.
C6_HarderFirst ==
    \A i, j \in Positions :
        ( /\ deck[i].nextReview = deck[j].nextReview
          /\ deck[i].repetitions = deck[j].repetitions
          /\ deck[i].easeFactor < deck[j].easeFactor ) =>
            /\ getCardPriority(deck[i], now) < getCardPriority(deck[j], now)
            /\ Sorted => i < j

\* C7: of two cards with the same nextReview and easeFactor, the one with
\* fewer repetitions has the lower score and is placed earlier.
C7_LessPractisedFirst ==
    \A i, j \in Positions :
        ( /\ deck[i].nextReview = deck[j].nextReview
          /\ deck[i].easeFactor = deck[j].easeFactor
          /\ deck[i].repetitions < deck[j].repetitions ) =>
            /\ getCardPriority(deck[i], now) < getCardPriority(deck[j], now)
            /\ Sorted => i < j

\* C8: at one time now, of two cards with the same easeFactor and
\* repetitions, the one with the earlier nextReview has the strictly lower
\* score, also across the due / not yet due boundary, and is placed earlier.
C8_MoreOverdueFirst ==
    \A i, j \in Positions :
        ( /\ deck[i].easeFactor = deck[j].easeFactor
          /\ deck[i].repetitions = deck[j].repetitions
          /\ deck[i].nextReview < deck[j].nextReview ) =>
            /\ getCardPriority(deck[i], now) < getCardPriority(deck[j], now)
            /\ Sorted => i < j

C8_Witness ==
    /\ Sorted
    /\ \E i, j \in Positions :
          /\ deck[i].easeFactor = deck[j].easeFactor
          /\ deck[i].repetitions = deck[j].repetitions
          /\ deck[i].nextReview < now /\ now <= deck[j].nextReview
          /\ i < j
          /\ PositionOf(prevDeck, deck[i].id) > PositionOf(prevDeck, deck[j].id)

\* C9: sortCardsByPriority is a stable ascending sort on the score: the
\* output is a permutation of the input in ascending score order, cards of
\* equal score keep their input order, and sorting the output again returns
\* the same sequence.
C9_StableSort ==
    Sorted =>
        /\ Len(deck) = Len(prevDeck)
        /\ \A k \in Positions : \E m \in Positions : deck[m] = prevDeck[k]
        /\ \A i, j \in Positions :
              i < j => getCardPriority(deck[i], now) <= getCardPriority(deck[j], now)
        /\ \A i, j \in Positions :
              ( /\ i < j
                /\ getCardPriority(prevDeck[i], now) = getCardPriority(prevDeck[j], now) ) =>
                    PositionOf(deck, prevDeck[i].id) < PositionOf(deck, prevDeck[j].id)
        /\ sortCardsByPriority(deck, now) = deck

C9_Witness ==
    /\ Sorted
    /\ deck # prevDeck
    /\ \E i, j \in Positions :
          /\ i < j
          /\ prevDeck[i].easeFactor # prevDeck[j].easeFactor
          /\ getCardPriority(prevDeck[i], now) = getCardPriority(prevDeck[j], now)
          /\ PositionOf(deck, prevDeck[i].id) < PositionOf(deck, prevDeck[j].id)

-----------------------------------------------------------------------------
(* Properties of getCardStudyStatus (specification Spec) *)

Classified == op = "getCardStudyStatus"

\* C10 as stated: the status is "new" if repetitions = 0, otherwise "due"
\* if nextReview <= now, otherwise "learning".
C10_Status_Stated ==
    Classified =>
        cardStatus.status = IF card.repetitions = 0 THEN "new"
                            ELSE IF card.nextReview <= now THEN "due"
                            ELSE "learning"

\* C10: the status is "new" if repetitions = 0, otherwise "review" if
\* nextReview <= now, otherwise "learning"; always one of the three.
C10_Status ==
    Classified =>
        /\ cardStatus.status \in {"new", "review", "learning"}
        /\ cardStatus.status = "new" <=> card.repetitions = 0
        /\ cardStatus.status = "review" <=>
              (card.repetitions # 0 /\ card.nextReview <= now)
        /\ cardStatus.status = "learning" <=>
              (card.repetitions # 0 /\ card.nextReview > now)

C10_Witness ==
    /\ Classified
    /\ card.repetitions > 0 /\ card.nextReview = now
    /\ cardStatus.status = "review"

\* C11: whenever repetitions = 0 the classifier returns status "new" and
\* mastery 0, whatever easeFactor, interval and nextReview are (an overdue
\* card, a card that has just failed a review); for repetitions > 0 the
\* mastery is 33 below 3 repetitions, 66 below 6, else 100.
C11_NewAndMastery ==
    Classified =>
        /\ card.repetitions = 0 =>
              (cardStatus.status = "new" /\ cardStatus.mastery = 0)
        /\ card.repetitions \in 1 .. 2 => cardStatus.mastery = 33
        /\ card.repetitions \in 3 .. 5 => cardStatus.mastery = 66
        /\ card.repetitions >= 6 => cardStatus.mastery = 100

\* a card that failed its review, classified when it is overdue
C11_Witness ==
    /\ Classified
    /\ calls >= 1 /\ card.repetitions = 0 /\ card.nextReview < now
    /\ cardStatus.status = "new" /\ cardStatus.mastery = 0

\* a card of six repetitions has been classified
C11_Reached100 ==
    Classified /\ card.repetitions >= 6 /\ cardStatus.mastery = 100

-----------------------------------------------------------------------------
(* utils.js shuffleArray; StudyModesManager.prepareTestCards,              *)
(* selectAdditionalCards; QuizItDB.getSetStatistics                        *)

\* Fisher-Yates with Math.random: any permutation of the array
shuffleArray(arr) ==
    IF arr = << >> THEN {<< >>}
    ELSE {[i \in 1 .. Len(arr) |-> arr[p[i]]] : p \in Permutations(1 .. Len(arr))}

\* this.testTargetCount || fallback
TargetCount_ignoresCount(target, fallback) == fallback

TargetCount(target, fallback) == IF target # 0 THEN target ELSE fallback

\* prepareTestCards before the shuffle
SelectTestCards_noSlice(pool, target, t) ==
    IF TargetCount(target, Len(pool)) <= Len(pool)
    THEN sortCardsByPriority(pool, t)
    ELSE pool

SelectTestCards(pool, target, t) ==
    LET totalCards  == Len(pool)
        targetCount == TargetCount(target, totalCards)
    IN  IF targetCount <= totalCards
        THEN SubSeq(sortCardsByPriority(pool, t), 1, targetCount)
        ELSE pool

IncorrectWeight == 3
CorrectWeight == 1

\* Math.ceil(count * incorrectWeight / totalWeight)
IncorrectShare_floor(count) ==
    (count * IncorrectWeight) \div (IncorrectWeight + CorrectWeight)

IncorrectShare(count) ==
    LET totalWeight == IncorrectWeight + CorrectWeight
    IN  (count * IncorrectWeight + totalWeight - 1) \div totalWeight

\* for (i = 0; i < n && src.length > 0; i++) push(src[i % src.length])
CyclicDraw_once(src, n) ==
    IF src = << >> \/ n <= 0 THEN << >>
    ELSE [i \in 1 .. Min(n, Len(src)) |-> src[i]]

CyclicDraw_newestFirst(src, n) ==
    IF src = << >> \/ n <= 0 THEN << >>
    ELSE [i \in 1 .. n |-> src[Len(src) - ((i - 1) % Len(src))]]

CyclicDraw(src, n) ==
    IF src = << >> \/ n <= 0 THEN << >>
    ELSE [i \in 1 .. n |-> src[((i - 1) % Len(src)) + 1]]

\* selectAdditionalCards before the shuffle, by the array each card is from
DrawAdditionalCards_fallbackWhenNothingDrawn(count, incorrect, correct, pool) ==
    LET incorrectCount == IncorrectShare(count)
        correctCount   == count - incorrectCount
        fromIncorrect  == CyclicDraw(incorrect, incorrectCount)
        fromCorrect    == CyclicDraw(correct, correctCount)
        drawn          == Len(fromIncorrect) + Len(fromCorrect)
    IN  [count         |-> count,
         fromIncorrect |-> fromIncorrect,
         fromCorrect   |-> fromCorrect,
         fromPool      |-> IF drawn = 0
                           THEN CyclicDraw(pool, count)
                           ELSE << >>]

DrawAdditionalCards_noPoolFallback(count, incorrect, correct, pool) ==
    LET incorrectCount == IncorrectShare(count)
        correctCount   == count - incorrectCount
    IN  [count         |-> count,
         fromIncorrect |-> CyclicDraw(incorrect, incorrectCount),
         fromCorrect   |-> CyclicDraw(correct, correctCount),
         fromPool      |-> << >>]

DrawAdditionalCards(count, incorrect, correct, pool) ==
    LET incorrectCount == IncorrectShare(count)
        correctCount   == count - incorrectCount
        fromIncorrect  == CyclicDraw(incorrect, incorrectCount)
        fromCorrect    == CyclicDraw(correct, correctCount)
        drawn          == Len(fromIncorrect) + Len(fromCorrect)
    IN  [count         |-> count,
         fromIncorrect |-> fromIncorrect,
         fromCorrect   |-> fromCorrect,
         fromPool      |-> IF drawn < count
                           THEN CyclicDraw(pool, count - drawn)
                           ELSE << >>]

\* the array additionalCards that selectAdditionalCards shuffles
AdditionalCards(draw) == draw.fromIncorrect \o draw.fromCorrect \o draw.fromPool

\* if (!list.find(c => c.id === card.id)) list.push(card)
PushOnce_always(list, c) == Append(list, c)

PushOnce(list, c) ==
    IF \E k \in 1 .. Len(list) : list[k].id = c.id THEN list ELSE Append(list, c)

\* a JavaScript quotient n / d, kept as the pair; 0 / 0 is NaN
Divide(n, d) == [num |-> n, den |-> d]
IsNaN(r) == r.num = 0 /\ r.den = 0
IsZero(r) == r.num = 0 /\ r.den # 0

RECURSIVE SumOver(_, _, _)
SumOver(arr, field, n) ==
    IF n = 0 THEN 0
    ELSE SumOver(arr, field, n - 1)
         + (IF arr[n].endTime # 0 THEN arr[n][field] ELSE 0)

getSetStatistics_unguardedMastery(cardsOfSet, sessionsOfSet) ==
    LET totalCorrect   == SumOver(sessionsOfSet, "correctCount", Len(sessionsOfSet))
        totalIncorrect == SumOver(sessionsOfSet, "incorrectCount", Len(sessionsOfSet))
        totalAttempts  == totalCorrect + totalIncorrect
        masteredCards  == Cardinality({k \in 1 .. Len(cardsOfSet) :
                              cardsOfSet[k].easeFactor > 250 /\ cardsOfSet[k].interval >= 1})
    IN  [totalCards     |-> Len(cardsOfSet),
         totalSessions  |-> Len(sessionsOfSet),
         accuracy       |-> IF totalAttempts > 0
                            THEN Divide(totalCorrect * 100, totalAttempts)
                            ELSE Divide(0, 1),
         masteryLevel   |-> Divide(masteredCards * 100, Len(cardsOfSet)),
         totalCorrect   |-> totalCorrect,
         totalIncorrect |-> totalIncorrect]

\* a session counts when its endTime is set (0 stands for null)
getSetStatistics(cardsOfSet, sessionsOfSet) ==
    LET totalCorrect   == SumOver(sessionsOfSet, "correctCount", Len(sessionsOfSet))
        totalIncorrect == SumOver(sessionsOfSet, "incorrectCount", Len(sessionsOfSet))
        totalAttempts  == totalCorrect + totalIncorrect
        masteredCards  == Cardinality({k \in 1 .. Len(cardsOfSet) :
                              cardsOfSet[k].easeFactor > 250 /\ cardsOfSet[k].interval >= 1})
    IN  [totalCards     |-> Len(cardsOfSet),
         totalSessions  |-> Len(sessionsOfSet),
         accuracy       |-> IF totalAttempts > 0
                            THEN Divide(totalCorrect * 100, totalAttempts)
                            ELSE Divide(0, 1),
         masteryLevel   |-> IF Len(cardsOfSet) > 0
                            THEN Divide(masteredCards * 100, Len(cardsOfSet))
                            ELSE Divide(0, 1),
         totalCorrect   |-> totalCorrect,
         totalIncorrect |-> totalIncorrect]

-----------------------------------------------------------------------------
(* A test session: study.html?setId=..&mode=test&count=..                  *)
(*                                                                         *)
(* init() runs loadSet, startSession and startTestMode; every await of a   *)
(* write to the database is a step of its own.  The stores hold the cards  *)
(* and sessions of the one set that is studied.                            *)

\* the states of card id in the store: as created, or (the first card of an
\* imported set) with the schedule of the import file
StoredStates(id) ==
    {createCard(id, 0)} \union
    (IF id = 1
     THEN {[id |-> id, front |-> "term", easeFactor |-> 260, interval |-> 6,
            repetitions |-> 2, nextReview |-> HoursPerDay + HalfDay]}
     ELSE {})

Pools ==
    UNION {{d \in [1 .. n -> UNION {StoredStates(i) : i \in 1 .. n}] :
               \A i \in 1 .. n : d[i].id = i} : n \in 0 .. MaxPool}

InitTest ==
    /\ now = HoursPerDay
    /\ op = "init"
    /\ card = createCard(1, 0)
    /\ deck = << >>
    /\ arg = 0
    /\ prevCard = card
    /\ prevDeck = << >>
    /\ ret = 0
    /\ cardStatus = NoStatus
    /\ calls = 0
    /\ dbCards \in Pools
    /\ sessions = << >>
    /\ performance = << >>
    /\ setStats = NoSetStats
    /\ phase = "init"
    /\ mode = "test"
    /\ testTargetCount \in 0 .. MaxTarget
    /\ NoManager

\* showTestQuestion: the card on display, submit shown, next hidden
ShowTestQuestion ==
    /\ submitVisible' = TRUE
    /\ nextVisible' = FALSE
    /\ answer' = "none"
    /\ presented' = presented + 1

\* loadSet: an empty set alerts and redirects, and returns to init()
LoadSet ==
    /\ phase = "init"
    /\ cards' = sortCardsByPriority(dbCards, now)
    /\ redirect' = (Len(dbCards) = 0)
    /\ phase' = "loaded"
    /\ op' = "loadSet"
    /\ UNCHANGED <<now, srsVars, dbVars>>
    /\ UNCHANGED <<mode, testTargetCount, testCards, currentIndex,
                   correctCards,
                   incorrectCards, stats, sessionId, submitVisible,
                   nextVisible, answer, pending, presented, lastDraw, resubmits>>

\* startSession up to its await: db.createSession
CreateSession ==
    /\ phase = "loaded"
    /\ sessions' = Append(sessions,
          [mode |-> mode, startTime |-> now, endTime |-> 0,
           cardsStudied |-> 0, correctCount |-> 0, incorrectCount |-> 0])
    /\ phase' = "starting"
    /\ op' = "createSession"
    /\ UNCHANGED <<now, srsVars, dbCards, performance, setStats>>
    /\ UNCHANGED <<mode, cards, testTargetCount, testCards, currentIndex,
                   correctCards, incorrectCards, stats, sessionId, redirect,
                   submitVisible, nextVisible, answer, pending, presented,
                   lastDraw, resubmits>>

\* startSession after the await, startTestMode, prepareTestCards and the
\* first showTestQuestion, which throws on an empty testCards
StartTestMode ==
    /\ phase = "starting"
    /\ mode = "test"
    /\ sessionId' = Len(sessions)
    /\ currentIndex' = 0
    /\ \E shuffled \in shuffleArray(SelectTestCards(cards, testTargetCount, now)) :
          /\ testCards' = shuffled
          /\ IF shuffled = << >>
             THEN /\ phase' = "crashed"
                  /\ UNCHANGED <<submitVisible, nextVisible, answer, presented>>
             ELSE /\ phase' = "active"
                  /\ ShowTestQuestion
    /\ op' = "startTestMode"
    /\ UNCHANGED <<now, srsVars, dbVars>>
    /\ UNCHANGED <<mode, cards, testTargetCount, correctCards, incorrectCards,
                   stats, redirect, pending, lastDraw, resubmits>>

RemoveAt(arr, i) ==
    [k \in 1 .. Len(arr) - 1 |-> IF k < i THEN arr[k] ELSE arr[k + 1]]

\* checkTestAnswer up to its first await (db.updateCard)
CheckTestAnswer(correct) ==
    /\ phase \in {"active", "ending"}
    /\ mode = "test"
    /\ submitVisible
    /\ resubmits' = IF answer = "none" THEN resubmits ELSE resubmits + 1
    /\ LET c == testCards[currentIndex + 1]
           quality == IF correct THEN 4 ELSE 1
           updatedCard == calculateNextReview(c, quality, now)
       IN  /\ correctCards' = IF correct THEN PushOnce(correctCards, c)
                              ELSE correctCards
           /\ incorrectCards' = IF correct THEN incorrectCards
                                ELSE PushOnce(incorrectCards, c)
           /\ dbCards' = [dbCards EXCEPT ![c.id] = updatedCard]
           /\ pending' = Append(pending,
                 [handler |-> "checkTestAnswer", card |-> c,
                  correct |-> correct, pc |-> "updateCard"])
    /\ answer' = IF correct THEN "right" ELSE "wrong"
    /\ op' = "checkTestAnswer"
    /\ UNCHANGED <<now, srsVars, sessions, performance, setStats>>
    /\ UNCHANGED <<mode, cards, testTargetCount, testCards, currentIndex, stats,
                   sessionId, phase, redirect, submitVisible, nextVisible,
                   presented, lastDraw>>

\* checkTestAnswer, checkLearnAnswer and rateFlashcard between their awaits:
\* db.recordPerformance.  The writes to one store complete in the order they
\* were requested, so the suspended calls resume in the order they were made.
RecordPerformance(i) ==
    /\ phase # "unloaded"
    /\ i \in 1 .. Len(pending)
    /\ pending[i].pc = "updateCard"
    /\ \A k \in 1 .. i - 1 : pending[k].pc # "updateCard"
    /\ performance' = Append(performance,
          [cardId |-> pending[i].card.id, sessionId |-> sessionId,
           correct |-> pending[i].correct, timestamp |-> now])
    /\ pending' = [pending EXCEPT ![i].pc = "recordPerformance"]
    /\ op' = "recordPerformance"
    /\ UNCHANGED <<now, srsVars, dbCards, sessions, setStats>>
    /\ UNCHANGED <<mode, cards, testTargetCount, testCards, currentIndex,
                   correctCards, incorrectCards, stats, sessionId, phase,
                   redirect, submitVisible, nextVisible, answer, presented,
                   lastDraw, resubmits>>

\* checkTestAnswer after its last await: the stats and the two buttons
UpdateStats(i) ==
    /\ phase # "unloaded"
    /\ i = 1 /\ Len(pending) >= 1
    /\ pending[i].handler = "checkTestAnswer"
    /\ pending[i].pc = "recordPerformance"
    /\ stats' = [stats EXCEPT
          !.cardsStudied = @ + 1,
          !.correctCount = IF pending[i].correct THEN @ + 1 ELSE @,
          !.incorrectCount = IF pending[i].correct THEN @ ELSE @ + 1]
    /\ submitVisible' = FALSE
    /\ nextVisible' = TRUE
    /\ pending' = RemoveAt(pending, i)
    /\ op' = "updateStats"
    /\ UNCHANGED <<now, srsVars, dbVars>>
    /\ UNCHANGED <<mode, cards, testTargetCount, testCards, currentIndex,
                   correctCards, incorrectCards, sessionId, phase, redirect,
                   answer, presented, lastDraw, resubmits>>

\* nextTestQuestion up to its await of endSession
nextTestQuestion ==
    /\ LET targetCount == TargetCount(testTargetCount, Len(testCards))
       IN  IF currentIndex < Len(testCards) - 1
           THEN /\ currentIndex' = currentIndex + 1
                /\ ShowTestQuestion
                /\ UNCHANGED <<testCards, phase, lastDraw>>
           ELSE IF Len(testCards) < targetCount
           THEN LET cardsNeeded == targetCount - Len(testCards)
                    draw == DrawAdditionalCards(cardsNeeded, incorrectCards,
                                                correctCards, cards)
                IN  /\ lastDraw' = draw
                    /\ \E newCards \in shuffleArray(AdditionalCards(draw)) :
                          IF Len(newCards) > 0
                          THEN /\ testCards' = testCards \o newCards
                               /\ currentIndex' = currentIndex + 1
                               /\ ShowTestQuestion
                               /\ UNCHANGED phase
                          ELSE /\ phase' = "ending"
                               /\ UNCHANGED <<testCards, currentIndex,
                                              submitVisible, nextVisible,
                                              answer, presented>>
           ELSE /\ phase' = "ending"
                /\ UNCHANGED <<testCards, currentIndex, submitVisible,
                               nextVisible, answer, presented, lastDraw>>
    /\ op' = "nextTestQuestion"
    /\ UNCHANGED <<now, srsVars, dbVars>>
    /\ UNCHANGED <<mode, cards, testTargetCount, correctCards, incorrectCards,
                   stats, sessionId, redirect, pending, resubmits>>

\* a click on nextTest
NextTestQuestion ==
    /\ phase = "active"
    /\ mode = "test"
    /\ nextVisible
    /\ nextTestQuestion

\* endSession: db.endSession writes the stats as they are after its await,
\* then the completion screen replaces the study mode
EndSession ==
    /\ phase = "ending"
    /\ sessions' = [sessions EXCEPT ![sessionId] =
          [@ EXCEPT !.endTime = now,
                    !.cardsStudied = stats.cardsStudied,
                    !.correctCount = stats.correctCount,
                    !.incorrectCount = stats.incorrectCount]]
    /\ phase' = "complete"
    /\ op' = "endSession"
    /\ UNCHANGED <<now, srsVars, dbCards, performance, setStats>>
    /\ UNCHANGED <<mode, cards, testTargetCount, testCards, currentIndex,
                   correctCards, incorrectCards, stats, sessionId, redirect,
                   submitVisible, nextVisible, answer, pending, presented,
                   lastDraw, resubmits>>

\* the navigation to index.html that loadSet asked for takes place
Unload ==
    /\ redirect
    /\ phase \notin {"unloaded", "closed"}
    /\ phase' = "unloaded"
    /\ op' = "unload"
    /\ UNCHANGED <<now, srsVars, dbVars>>
    /\ UNCHANGED <<mode, cards, testTargetCount, testCards, currentIndex,
                   correctCards, incorrectCards, stats, sessionId, redirect,
                   submitVisible, nextVisible, answer, pending, presented,
                   lastDraw, resubmits>>

\* db.getSetStatistics(setId), from the home page or the analytics page
GetSetStatistics ==
    /\ setStats' = getSetStatistics(dbCards, sessions)
    /\ op' = "getSetStatistics"
    /\ UNCHANGED <<now, srsVars, dbCards, sessions, performance, managerVars>>

\* a click on submitTest with an answer entered for the question on display
SubmitAnswer(correct) ==
    /\ answer = "none"
    /\ CheckTestAnswer(correct)

\* a click on submitTest while an earlier call is suspended and the button is
\* still displayed: the same, now disabled, answer is submitted again
ResubmitAnswer ==
    /\ answer # "none"
    /\ resubmits + TargetCount(testTargetCount, Len(cards)) < MaxSubmits
    /\ CheckTestAnswer(answer = "right")

\* the steps of a session in which every question is submitted once
AnswerOnceStep ==
    \/ LoadSet
    \/ CreateSession
    \/ StartTestMode
    \/ \E correct \in BOOLEAN : SubmitAnswer(correct)
    \/ \E i \in 1 .. MaxSubmits : RecordPerformance(i)
    \/ \E i \in 1 .. MaxSubmits : UpdateStats(i)
    \/ NextTestQuestion
    \/ EndSession

SessionStep ==
    \/ AnswerOnceStep
    \/ ResubmitAnswer

NextTest ==
    \/ SessionStep
    \/ Unload

SpecTest == InitTest /\ [][NextTest]_vars

NextAnswerOnce ==
    \/ AnswerOnceStep
    \/ Unload

\* the user answers each question and presses next, and every request to the
\* database is answered: a step of the session that stays possible is taken
SpecTestLive ==
    InitTest /\ [][NextAnswerOnce]_vars /\ WF_vars(AnswerOnceStep)

-----------------------------------------------------------------------------
(* Flashcards and learn mode: study.html?setId=..&mode=flashcards|learn    *)
(*                                                                         *)
(* submitVisible stands for the controls that take the answer (the         *)
(* confidence rating buttons, the learn input), nextVisible for the        *)
(* controls that move on (the flashcard controls, the continue button).    *)

\* showFlashcard: the card unflipped, rating hidden, controls shown
ShowFlashcard ==
    /\ submitVisible' = FALSE
    /\ nextVisible' = TRUE
    /\ answer' = "none"

\* startSession after the await, startFlashcardsMode and the first
\* showFlashcard, which throws on an empty this.cards
StartFlashcardsMode ==
    /\ phase = "starting"
    /\ mode = "flashcards"
    /\ sessionId' = Len(sessions)
    /\ currentIndex' = 0
    /\ IF cards = << >>
       THEN /\ phase' = "crashed"
            /\ UNCHANGED <<submitVisible, nextVisible, answer>>
       ELSE /\ phase' = "active"
            /\ ShowFlashcard
    /\ op' = "startFlashcardsMode"
    /\ UNCHANGED <<now, srsVars, dbVars>>
    /\ UNCHANGED <<mode, cards, testTargetCount, testCards, correctCards,
                   incorrectCards, stats, redirect, pending, presented,
                   lastDraw, resubmits>>

\* a click on the flashcard that flips it: the rating buttons are shown
FlipFlashcard ==
    /\ phase = "active"
    /\ mode = "flashcards"
    /\ ~submitVisible
    /\ submitVisible' = TRUE
    /\ nextVisible' = FALSE
    /\ op' = "flip"
    /\ UNCHANGED <<now, srsVars, dbVars>>
    /\ UNCHANGED <<mode, cards, testTargetCount, testCards, currentIndex,
                   correctCards, incorrectCards, stats, sessionId, phase,
                   redirect, answer, pending, presented, lastDraw, resubmits>>

\* rateFlashcard up to its first await (db.updateCard); the rating buttons
\* stay displayed until the call has resumed
RateFlashcard(rating) ==
    /\ phase \in {"active", "ending"}
    /\ mode = "flashcards"
    /\ submitVisible
    /\ Len(performance) + Len(pending) < MaxRatings
    /\ LET c == cards[currentIndex + 1]
           quality == mapSimpleRatingToQuality(rating)
           correct == rating >= 3
           updatedCard == calculateNextReview(c, quality, now)
       IN  /\ dbCards' = [dbCards EXCEPT ![c.id] = updatedCard]
           /\ pending' = Append(pending,
                 [handler |-> "rateFlashcard", card |-> c,
                  correct |-> correct, pc |-> "updateCard"])
    /\ arg' = rating
    /\ op' = "rateFlashcard"
    /\ UNCHANGED <<now, card, deck, prevCard, prevDeck, ret, cardStatus, calls>>
    /\ UNCHANGED <<sessions, performance, setStats>>
    /\ UNCHANGED <<mode, cards, testTargetCount, testCards, currentIndex,
                   correctCards, incorrectCards, stats, sessionId, phase,
                   redirect, submitVisible, nextVisible, answer, presented,
                   lastDraw, resubmits>>

\* rateFlashcard after its second await: the stats, then the next card or
\* endSession
FinishRateFlashcard ==
    /\ phase \notin {"unloaded", "closed"}
    /\ Len(pending) >= 1
    /\ pending[1].handler = "rateFlashcard"
    /\ pending[1].pc = "recordPerformance"
    /\ stats' = [stats EXCEPT
          !.cardsStudied = @ + 1,
          !.correctCount = IF pending[1].correct THEN @ + 1 ELSE @,
          !.incorrectCount = IF pending[1].correct THEN @ ELSE @ + 1]
    /\ pending' = Tail(pending)
    /\ IF currentIndex < Len(cards) - 1
       THEN /\ currentIndex' = currentIndex + 1
            /\ ShowFlashcard
            /\ UNCHANGED phase
       ELSE /\ phase' = "ending"
            /\ UNCHANGED <<currentIndex, submitVisible, nextVisible, answer>>
    /\ op' = "finishRateFlashcard"
    /\ UNCHANGED <<now, srsVars, dbVars>>
    /\ UNCHANGED <<mode, cards, testTargetCount, testCards, correctCards,
                   incorrectCards, sessionId, redirect, presented, lastDraw,
                   resubmits>>

\* nextFlashcard: the next card, or endSession after the last one
NextFlashcard ==
    /\ phase = "active"
    /\ mode = "flashcards"
    /\ nextVisible
    /\ IF currentIndex < Len(cards) - 1
       THEN /\ currentIndex' = currentIndex + 1
            /\ ShowFlashcard
            /\ UNCHANGED phase
       ELSE /\ phase' = "ending"
            /\ UNCHANGED <<currentIndex, submitVisible, nextVisible, answer>>
    /\ op' = "nextFlashcard"
    /\ UNCHANGED <<now, srsVars, dbVars>>
    /\ UNCHANGED <<mode, cards, testTargetCount, testCards, correctCards,
                   incorrectCards, stats, sessionId, redirect, pending,
                   presented, lastDraw, resubmits>>

\* prevFlashcard: one card back, when there is one
PrevFlashcard ==
    /\ phase = "active"
    /\ mode = "flashcards"
    /\ nextVisible
    /\ currentIndex > 0
    /\ currentIndex' = currentIndex - 1
    /\ ShowFlashcard
    /\ op' = "prevFlashcard"
    /\ UNCHANGED <<now, srsVars, dbVars>>
    /\ UNCHANGED <<mode, cards, testTargetCount, testCards, correctCards,
                   incorrectCards, stats, sessionId, phase, redirect, pending,
                   presented, lastDraw, resubmits>>

\* shuffleFlashcards: this.cards shuffled, the card on display kept
ShuffleFlashcards ==
    /\ phase = "active"
    /\ mode = "flashcards"
    /\ nextVisible
    /\ \E shuffled \in shuffleArray(cards) :
          /\ cards' = shuffled
          /\ currentIndex' =
                (CHOOSE k \in 1 .. Len(shuffled) :
                    shuffled[k] = cards[currentIndex + 1]) - 1
    /\ ShowFlashcard
    /\ op' = "shuffleFlashcards"
    /\ UNCHANGED <<now, srsVars, dbVars>>
    /\ UNCHANGED <<mode, testTargetCount, testCards, correctCards,
                   incorrectCards, stats, sessionId, phase, redirect, pending,
                   presented, lastDraw, resubmits>>

\* showLearnCard: the input shown, the continue button hidden
ShowLearnCard ==
    /\ submitVisible' = TRUE
    /\ nextVisible' = FALSE
    /\ answer' = "none"

\* startSession after the await, startLearnMode and the first showLearnCard,
\* which throws on an empty this.cards
StartLearnMode ==
    /\ phase = "starting"
    /\ mode = "learn"
    /\ sessionId' = Len(sessions)
    /\ currentIndex' = 0
    /\ IF cards = << >>
       THEN /\ phase' = "crashed"
            /\ UNCHANGED <<submitVisible, nextVisible, answer>>
       ELSE /\ phase' = "active"
            /\ ShowLearnCard
    /\ op' = "startLearnMode"
    /\ UNCHANGED <<now, srsVars, dbVars>>
    /\ UNCHANGED <<mode, cards, testTargetCount, testCards, correctCards,
                   incorrectCards, stats, redirect, pending, presented,
                   lastDraw, resubmits>>

\* checkLearnAnswer up to its first await (db.updateCard): the input is
\* hidden and the continue button shown before the card is written
CheckLearnAnswer(correct) ==
    /\ phase = "active"
    /\ mode = "learn"
    /\ submitVisible
    /\ submitVisible' = FALSE
    /\ nextVisible' = TRUE
    /\ answer' = IF correct THEN "right" ELSE "wrong"
    /\ LET c == cards[currentIndex + 1]
           quality == IF correct THEN 4 ELSE 1
           updatedCard == calculateNextReview(c, quality, now)
       IN  /\ dbCards' = [dbCards EXCEPT ![c.id] = updatedCard]
           /\ pending' = Append(pending,
                 [handler |-> "checkLearnAnswer", card |-> c,
                  correct |-> correct, pc |-> "updateCard"])
    /\ op' = "checkLearnAnswer"
    /\ UNCHANGED <<now, srsVars, sessions, performance, setStats>>
    /\ UNCHANGED <<mode, cards, testTargetCount, testCards, currentIndex,
                   correctCards, incorrectCards, stats, sessionId, phase,
                   redirect, presented, lastDraw, resubmits>>

\* checkLearnAnswer after its second await: the stats
FinishCheckLearnAnswer ==
    /\ phase \notin {"unloaded", "closed"}
    /\ Len(pending) >= 1
    /\ pending[1].handler = "checkLearnAnswer"
    /\ pending[1].pc = "recordPerformance"
    /\ stats' = [stats EXCEPT
          !.cardsStudied = @ + 1,
          !.correctCount = IF pending[1].correct THEN @ + 1 ELSE @,
          !.incorrectCount = IF pending[1].correct THEN @ ELSE @ + 1]
    /\ pending' = Tail(pending)
    /\ op' = "finishCheckLearnAnswer"
    /\ UNCHANGED <<now, srsVars, dbVars>>
    /\ UNCHANGED <<mode, cards, testTargetCount, testCards, currentIndex,
                   correctCards, incorrectCards, sessionId, phase, redirect,
                   submitVisible, nextVisible, answer, presented, lastDraw,
                   resubmits>>

\* nextLearnCard: the next card, or endSession after the last one
NextLearnCard ==
    /\ phase = "active"
    /\ mode = "learn"
    /\ nextVisible
    /\ IF currentIndex < Len(cards) - 1
       THEN /\ currentIndex' = currentIndex + 1
            /\ ShowLearnCard
            /\ UNCHANGED phase
       ELSE /\ phase' = "ending"
            /\ UNCHANGED <<currentIndex, submitVisible, nextVisible, answer>>
    /\ op' = "nextLearnCard"
    /\ UNCHANGED <<now, srsVars, dbVars>>
    /\ UNCHANGED <<mode, cards, testTargetCount, testCards, correctCards,
                   incorrectCards, stats, sessionId, redirect, pending,
                   presented, lastDraw, resubmits>>

FlashcardsStep ==
    \/ StartFlashcardsMode
    \/ FlipFlashcard
    \/ \E rating \in 1 .. 4 : RateFlashcard(rating)
    \/ FinishRateFlashcard
    \/ NextFlashcard
    \/ PrevFlashcard
    \/ ShuffleFlashcards

LearnStep ==
    \/ StartLearnMode
    \/ \E correct \in BOOLEAN : CheckLearnAnswer(correct)
    \/ FinishCheckLearnAnswer
    \/ NextLearnCard

InitStudy ==
    /\ now = HoursPerDay
    /\ op = "init"
    /\ card = createCard(1, 0)
    /\ deck = << >>
    /\ arg = 0
    /\ prevCard = card
    /\ prevDeck = << >>
    /\ ret = 0
    /\ cardStatus = NoStatus
    /\ calls = 0
    /\ dbCards \in Pools
    /\ sessions = << >>
    /\ performance = << >>
    /\ setStats = NoSetStats
    /\ phase = "init"
    /\ mode \in {"flashcards", "learn", "test"}
    /\ testTargetCount \in IF mode = "test" THEN 0 .. MaxTarget ELSE {0}
    /\ NoManager

NextStudy ==
    \/ NextTest
    \/ FlashcardsStep
    \/ LearnStep

SpecStudy == InitStudy /\ [][NextStudy]_vars

-----------------------------------------------------------------------------
(* getSetStatistics on the stores of a set, created or imported *)

\* the states of card id in the store: as created, or as handleImportSetFile
\* stores it with the easeFactor and interval of the import file
StatsCardStates(id) ==
    {createCard(id, 0)} \union
    {[createCard(id, 0) EXCEPT !.easeFactor = e, !.interval = i,
                               !.repetitions = IF i = 0 THEN 0 ELSE 2] :
        e \in {130, 250, 260}, i \in {0, 1}}

StatsPools ==
    UNION {{d \in [1 .. n -> UNION {StatsCardStates(i) : i \in 1 .. n}] :
               \A i \in 1 .. n : d[i].id = i} : n \in 0 .. MaxPool}

\* the session records: one left open (endTime null), or ended with the
\* counts of its stats
SessionRecords ==
    {[mode |-> "test", startTime |-> 0, endTime |-> e,
      cardsStudied |-> c + w, correctCount |-> c, incorrectCount |-> w] :
        e \in {0, HoursPerDay}, c \in 0 .. 1, w \in 0 .. 1}

SessionLogs ==
    UNION {[1 .. n -> SessionRecords] : n \in 0 .. MaxSessions}

InitStats ==
    /\ now = HoursPerDay
    /\ op = "init"
    /\ card = createCard(1, 0)
    /\ deck = << >>
    /\ arg = 0
    /\ prevCard = card
    /\ prevDeck = << >>
    /\ ret = 0
    /\ cardStatus = NoStatus
    /\ calls = 0
    /\ dbCards \in StatsPools
    /\ sessions \in SessionLogs
    /\ performance = << >>
    /\ setStats = NoSetStats
    /\ phase = "closed"
    /\ mode = "none"
    /\ testTargetCount = 0
    /\ NoManager

NextStats == GetSetStatistics

SpecStats == InitStats /\ [][NextStats]_vars

-----------------------------------------------------------------------------
(* nextTestQuestion called on a manager whose working set is exhausted *)

\* the cards of arr, in order, whose answer has the given correctness
RECURSIVE Answered(_, _, _)
Answered(arr, answers, correct) ==
    IF arr = << >> THEN << >>
    ELSE LET rest == Answered(SubSeq(arr, 1, Len(arr) - 1), answers, correct)
         IN  IF answers[Len(arr)] = correct
             THEN Append(rest, arr[Len(arr)])
             ELSE rest

\* the manager and the stores after init() and one answer to every card of
\* the working set; with an empty set, after startTestMode has thrown
InitReplenish ==
    /\ now = HoursPerDay
    /\ op = "init"
    /\ card = createCard(1, 0)
    /\ deck = << >>
    /\ arg = 0
    /\ prevCard = card
    /\ prevDeck = << >>
    /\ ret = 0
    /\ cardStatus = NoStatus
    /\ calls = 0
    /\ setStats = NoSetStats
    /\ mode = "test"
    /\ testTargetCount \in 0 .. MaxTarget
    /\ \E pool \in Pools :
          /\ cards = sortCardsByPriority(pool, now)
          /\ testCards \in shuffleArray(SelectTestCards(cards, testTargetCount, now))
          /\ \E answers \in [1 .. Len(testCards) -> BOOLEAN] :
                /\ correctCards = Answered(testCards, answers, TRUE)
                /\ incorrectCards = Answered(testCards, answers, FALSE)
                /\ stats = [cardsStudied   |-> Len(testCards),
                            correctCount   |-> Len(correctCards),
                            incorrectCount |-> Len(incorrectCards)]
                /\ performance =
                      [k \in 1 .. Len(testCards) |->
                          [cardId |-> testCards[k].id, sessionId |-> 1,
                           correct |-> answers[k], timestamp |-> now]]
                /\ dbCards =
                      [i \in 1 .. Len(pool) |->
                          IF \E k \in 1 .. Len(testCards) : testCards[k].id = i
                          THEN LET k == CHOOSE j \in 1 .. Len(testCards) :
                                            testCards[j].id = i
                               IN  calculateNextReview(pool[i],
                                      IF answers[k] THEN 4 ELSE 1, now)
                          ELSE pool[i]]
                /\ answer = IF pool = << >> THEN "none"
                            ELSE IF answers[Len(testCards)] THEN "right"
                            ELSE "wrong"
          /\ redirect = (pool = << >>)
          /\ phase = IF pool = << >> THEN "crashed" ELSE "active"
          /\ nextVisible = (pool # << >>)
          /\ presented = Len(testCards)
    /\ currentIndex = Max(Len(testCards) - 1, 0)
    /\ sessions = << [mode |-> "test", startTime |-> now, endTime |-> 0,
                      cardsStudied |-> 0, correctCount |-> 0,
                      incorrectCount |-> 0] >>
    /\ sessionId = 1
    /\ submitVisible = FALSE
    /\ pending = << >>
    /\ lastDraw = NoDraw
    /\ resubmits = 0

\* nextTestQuestion is called: by a click on nextTest, or directly on the
\* manager that startTestMode has left without cards
CallNextTestQuestion ==
    /\ op = "init"
    /\ phase \in {"active", "crashed"}
    /\ nextTestQuestion

NextReplenish ==
    \/ CallNextTestQuestion
    \/ EndSession

SpecReplenish ==
    InitReplenish /\ [][NextReplenish]_vars /\ WF_vars(NextReplenish)

-----------------------------------------------------------------------------
(* Properties of the test session (specification SpecTest) *)

Ids(arr) == {arr[k].id : k \in 1 .. Len(arr)}

DistinctIds(arr) == \A j, k \in 1 .. Len(arr) : arr[j].id = arr[k].id => j = k

Started == op = "startTestMode"

\* C12: at session start with target count T and the pool P, if 1 <= T <= |P|
\* the working set holds exactly T distinct cards, the first T cards of
\* sortCardsByPriority(P) in some order, and no selected card has a larger
\* priority score than a card left out; if T > |P|, or no count is given,
\* the working set is a permutation of the whole pool.
C12_InitialWorkingSet ==
    Started =>
        LET T      == testTargetCount
            P      == dbCards
            ranked == sortCardsByPriority(P, now)
        IN  /\ DistinctIds(testCards)
            /\ T \in 1 .. Len(P) =>
                  /\ Len(testCards) = T
                  /\ Ids(testCards) = {ranked[k].id : k \in 1 .. T}
                  /\ \A j \in 1 .. Len(testCards) : \A k \in 1 .. Len(P) :
                        P[k].id \notin Ids(testCards) =>
                           getCardPriority(testCards[j], now)
                              <= getCardPriority(P[k], now)
            /\ (T > Len(P) \/ T = 0) =>
                  /\ Len(testCards) = Len(P)
                  /\ Ids(testCards) = Ids(P)
            /\ \A j \in 1 .. Len(testCards) : testCards[j] = P[testCards[j].id]

\* one card of two is asked for, and it is the second card of the store
C12_Witness ==
    /\ Started
    /\ testTargetCount = 1 /\ Len(dbCards) = 2
    /\ testCards = << dbCards[2] >>

\* more cards are asked for than the pool has
C12_WholePool ==
    /\ Started
    /\ testTargetCount > Len(dbCards) /\ Len(dbCards) = 2
    /\ testCards = << dbCards[2], dbCards[1] >>

\* C13: for every non-empty pool and every target count T >= 1, also
\* T > |pool|, a test session in which the user keeps answering and pressing
\* next reaches COMPLETE, and it has then presented exactly T questions: at
\* no time more than T, and not fewer when it completes.
C13_CompletesAfterTarget ==
    /\ [](Len(dbCards) > 0 /\ testTargetCount >= 1 =>
             /\ presented <= testTargetCount
             /\ phase \in {"ending", "complete"} => presented = testTargetCount)
    /\ (phase = "init" /\ Len(dbCards) > 0 /\ testTargetCount >= 1)
          ~> (phase = "complete" /\ presented = testTargetCount)

\* a session of MaxTarget questions over a pool of two cards is complete
C13_Witness ==
    /\ phase = "complete"
    /\ Len(dbCards) = 2 /\ testTargetCount = MaxTarget
    /\ presented = testTargetCount

\* the state that nextTestQuestion leaves when it has appended new cards
Replenished ==
    /\ op = "nextTestQuestion"
    /\ phase = "active"
    /\ lastDraw # NoDraw
    /\ AdditionalCards(lastDraw) # << >>
    /\ currentIndex = Len(testCards) - Len(AdditionalCards(lastDraw))

\* the cards appended by the replenishment
Appended ==
    SubSeq(testCards, currentIndex + 1, Len(testCards))

Count(arr, x) == Cardinality({k \in 1 .. Len(arr) : arr[k] = x})

SameBag(a, b) ==
    /\ Len(a) = Len(b)
    /\ \A k \in 1 .. Len(a) : Count(a, a[k]) = Count(b, a[k])

\* the least k with 4k >= 3d
CeilThreeQuarters(d) == CHOOSE k \in 0 .. d : 4 * k >= 3 * d /\ 4 * (k - 1) < 3 * d

\* C14: on a replenishment with deficit d, when both answeredIncorrectly and
\* answeredCorrectly are non-empty, exactly ceil(3d/4) of the d appended cards
\* are drawn from answeredIncorrectly and the other d - ceil(3d/4) from
\* answeredCorrectly.
C14_WeightedDraw ==
    (Replenished /\ incorrectCards # << >> /\ correctCards # << >>) =>
        LET d == testTargetCount - Len(cards)
        IN  /\ d >= 1
            /\ Len(Appended) = d
            /\ SameBag(Appended, lastDraw.fromIncorrect \o lastDraw.fromCorrect)
            /\ Len(lastDraw.fromIncorrect) = CeilThreeQuarters(d)
            /\ Len(lastDraw.fromCorrect) = d - CeilThreeQuarters(d)
            /\ \A k \in 1 .. Len(lastDraw.fromIncorrect) :
                  lastDraw.fromIncorrect[k].id \in Ids(incorrectCards)
            /\ \A k \in 1 .. Len(lastDraw.fromCorrect) :
                  lastDraw.fromCorrect[k].id \in Ids(correctCards)

\* a deficit of four: three cards from answeredIncorrectly, one from
\* answeredCorrectly
C14_Witness ==
    /\ Replenished
    /\ incorrectCards # << >> /\ correctCards # << >>
    /\ testTargetCount - Len(cards) = 4
    /\ Len(lastDraw.fromIncorrect) = 3
    /\ Len(lastDraw.fromCorrect) = 1

C15_AllAnsweredCorrectly ==
    /\ Replenished
    /\ incorrectCards = << >> /\ Ids(correctCards) = Ids(cards)
    /\ Len(cards) = 2 /\ testTargetCount = 5
    /\ Len(Appended) = 3
    /\ lastDraw.fromCorrect = << >> /\ Len(lastDraw.fromPool) = 3

\* C16 as stated: a replenishment iterates over the pool only if both
\* answeredCorrectly and answeredIncorrectly are empty; when at least one of
\* them is non-empty no appended card is taken by iterating the pool.
C16_PoolFallback_Stated ==
    Replenished =>
        (lastDraw.fromPool # << >> =>
            (incorrectCards = << >> /\ correctCards = << >>))

\* C16: a replenishment with deficit d iterates over the pool exactly when
\* the draws from answeredIncorrectly and answeredCorrectly give fewer than
\* d cards, which is the case when answeredIncorrectly is empty, or when
\* answeredCorrectly is empty and d - ceil(3d/4) > 0; the pool then supplies
\* the missing cards, from its first card on.  When both sets are non-empty
\* no appended card is taken by iterating the pool.
C16_PoolFallback ==
    Replenished =>
        LET d     == testTargetCount - Len(cards)
            drawn == Len(lastDraw.fromIncorrect) + Len(lastDraw.fromCorrect)
        IN  /\ lastDraw.fromPool # << >> <=> drawn < d
            /\ drawn < d <=>
                  \/ incorrectCards = << >>
                  \/ correctCards = << >> /\ d - CeilThreeQuarters(d) > 0
            /\ Len(lastDraw.fromPool) = d - drawn
            /\ \A k \in 1 .. Len(lastDraw.fromPool) :
                  lastDraw.fromPool[k] = cards[((k - 1) % Len(cards)) + 1]
            /\ SameBag(Appended, AdditionalCards(lastDraw))

\* answeredCorrectly is empty, answeredIncorrectly is not: three cards are
\* drawn from answeredIncorrectly and the fourth by iterating the pool
C16_Witness ==
    /\ Replenished
    /\ correctCards = << >> /\ incorrectCards # << >>
    /\ Len(lastDraw.fromIncorrect) = 3
    /\ Len(lastDraw.fromPool) = 1

IsPrefix(a, b) == Len(a) <= Len(b) /\ a = SubSeq(b, 1, Len(a))

\* the ids of the cards with an answer of the given correctness on record
AnsweredIds(correct) ==
    {performance[k].cardId : k \in {j \in 1 .. Len(performance) :
                                        performance[j].correct = correct}}

\* C17: membership of answeredCorrectly and answeredIncorrectly is additive
\* only: no step of a test session removes a card from either array, each
\* array holds an id at most once, and a card answered correctly once and
\* incorrectly once in the session is in both arrays at the same time.
C17_AdditiveSets ==
    /\ [][/\ IsPrefix(correctCards, correctCards')
          /\ IsPrefix(incorrectCards, incorrectCards')]_vars
    /\ [](/\ DistinctIds(correctCards)
          /\ DistinctIds(incorrectCards)
          /\ AnsweredIds(TRUE) \subseteq Ids(correctCards)
          /\ AnsweredIds(FALSE) \subseteq Ids(incorrectCards))

\* a card has been answered correctly and incorrectly and is in both arrays
C17_Witness ==
    \E id \in AnsweredIds(TRUE) \cap AnsweredIds(FALSE) :
        id \in Ids(correctCards) /\ id \in Ids(incorrectCards)

\* C18: a session started on a set of zero cards is aborted: it never
\* becomes active, no question is presented, and no session record is
\* created in the sessions store.
C18_EmptyPoolAborts ==
    Len(dbCards) = 0 =>
        /\ phase # "active"
        /\ presented = 0
        /\ sessions = << >>

\* the session record of a set without cards, written after loadSet asked
\* for the redirect
C18_OrphanSession ==
    /\ Len(dbCards) = 0 /\ redirect
    /\ Len(sessions) = 1 /\ sessions[1].endTime = 0

-----------------------------------------------------------------------------
(* Properties of nextTestQuestion (specification SpecReplenish) *)

NextCalled == op \in {"nextTestQuestion", "endSession"}

\* C19: when nextTestQuestion finds the working set exhausted below the
\* target count but there is no card at all (answeredCorrectly,
\* answeredIncorrectly and the pool are empty), selectAdditionalCards returns
\* no cards and the session ends, reaching COMPLETE without a question
\* being shown, although the deficit is positive; with a non-empty pool it
\* returns exactly deficit cards.
C19_Underflow ==
    /\ [](NextCalled /\ testTargetCount > Len(cards) =>
             LET d == testTargetCount - Len(cards)
             IN  IF cards = << >>
                 THEN /\ AdditionalCards(lastDraw) = << >>
                      /\ lastDraw.count = d
                      /\ testCards = << >>
                      /\ presented = 0
                      /\ phase \in {"ending", "complete"}
                 ELSE /\ Len(AdditionalCards(lastDraw)) = d
                      /\ Len(testCards) = Len(cards) + d
                      /\ phase = "active")
    /\ (cards = << >> /\ testTargetCount >= 1 /\ NextCalled)
          ~> (phase = "complete" /\ presented = 0)

\* the session of a manager without cards is complete
C19_Witness ==
    /\ cards = << >> /\ correctCards = << >> /\ incorrectCards = << >>
    /\ testTargetCount >= 1
    /\ lastDraw.count = testTargetCount
    /\ phase = "complete" /\ presented = 0

\* a deficit of three is filled from a pool of one card
C19_FilledFromOneCard ==
    /\ NextCalled
    /\ Len(cards) = 1 /\ testTargetCount = 4
    /\ Len(testCards) = 4

-----------------------------------------------------------------------------
(* Properties of getSetStatistics (specification SpecStats) *)

Computed == op = "getSetStatistics"

\* the cards that getSetStatistics counts as mastered
Mastered ==
    {k \in 1 .. Len(dbCards) :
        dbCards[k].easeFactor > 250 /\ dbCards[k].interval >= 1}

C20_EmptyCollection ==
    /\ Computed
    /\ sessions = << >> /\ dbCards = << >>
    /\ IsZero(setStats.accuracy) /\ IsZero(setStats.masteryLevel)

-----------------------------------------------------------------------------
(* Properties of the study modes (specification SpecStudy) *)

\* the state a handler leaves at its first await: the card is written, the
\* call is the last of the suspended calls
AnswerStored ==
    /\ op \in {"rateFlashcard", "checkLearnAnswer", "checkTestAnswer"}
    /\ pending # << >>

LastAnswer == pending[Len(pending)]

\* C21: in flashcards, learn and test mode every answer that the session
\* records as incorrect, the flashcard rating 1 (Again) included, stores the
\* card with interval 0 and repetitions 0.
C21_IncorrectResets ==
    (AnswerStored /\ ~LastAnswer.correct) =>
        /\ dbCards[LastAnswer.card.id].interval = 0
        /\ dbCards[LastAnswer.card.id].repetitions = 0

\* the rating Again on a flashcard: recorded as incorrect, stored as a
\* first successful repetition
C21_AgainAdvances ==
    /\ AnswerStored /\ op = "rateFlashcard" /\ arg = 1
    /\ ~LastAnswer.correct
    /\ dbCards[LastAnswer.card.id].repetitions = LastAnswer.card.repetitions + 1
    /\ dbCards[LastAnswer.card.id].interval >= 1

\* in learn and test mode an incorrect answer resets the schedule
C21_LearnAndTestReset ==
    (AnswerStored /\ ~LastAnswer.correct /\ mode \in {"learn", "test"}) =>
        /\ dbCards[LastAnswer.card.id].interval = 0
        /\ dbCards[LastAnswer.card.id].repetitions = 0

\* C22: repetitions is a consecutive-success counter with one update per
\* answer: every answer of a test session, also to a card that the session
\* presents again after a replenishment, stores repetitions as the stored
\* repetitions plus one when it is correct, and as 0 when it is not, because
\* the schedule is computed from the state the previous answer stored.
C22_ConsecutiveSuccesses ==
    [][(op' = "checkTestAnswer" /\ pending' # << >>) =>
          LET a  == pending'[Len(pending')]
              id == a.card.id
          IN  dbCards'[id].repetitions =
                 IF a.correct THEN dbCards[id].repetitions + 1 ELSE 0]_vars

\* a card was answered correctly twice and is stored with one repetition
C22_StaleSchedule ==
    /\ Len(cards) = 1 /\ cards[1].repetitions = 0
    /\ Len(performance) = 2
    /\ performance[1].correct /\ performance[2].correct
    /\ pending = << >>
    /\ dbCards[1].repetitions = 1

-----------------------------------------------------------------------------
(* Further properties of calculateNextReview (specification Spec) *)

\* C23: a quality outside 0 .. 5 is clamped, not rejected: for every quality
\* q calculateNextReview returns what it returns for max(0, min(5, q)), so
\* q > 5 behaves as 5 and q < 0 behaves as 0.
C23_QualityClamped ==
    Reviewed =>
        /\ card = calculateNextReview(prevCard,
                     IF arg > 5 THEN 5 ELSE IF arg < 0 THEN 0 ELSE arg, now)
        /\ arg > 5 => /\ card.repetitions = prevCard.repetitions + 1
                      /\ card.easeFactor = Max(130, prevCard.easeFactor + 10)
        /\ arg < 0 => /\ card.repetitions = 0
                      /\ card.interval = 0
                      /\ card.easeFactor = Max(130, prevCard.easeFactor - 80)

\* a quality above 5 and a quality below 0 have been scheduled
C23_Witness ==
    /\ Reviewed
    /\ arg > 5
    /\ card.easeFactor = prevCard.easeFactor + 10

C23_BelowRange ==
    /\ Reviewed
    /\ arg < 0
    /\ card.repetitions = 0 /\ prevCard.repetitions > 0

\* C24: calculateNextReview returns an item with the input's fields outside
\* the scheduler (id, content) unchanged and with easeFactor, interval,
\* repetitions and nextReview replaced together, nextReview being the time
\* of the call plus the new interval in days.
C24_Frame ==
    Reviewed =>
        LET q == ClampQuality(arg)
        IN  /\ DOMAIN card = DOMAIN prevCard
            /\ card.id = prevCard.id
            /\ card.front = prevCard.front
            /\ card.repetitions = NextRepetitions(prevCard, q)
            /\ card.interval = NextInterval(prevCard, q, card.repetitions)
            /\ card.easeFactor = NextEaseFactor(prevCard, q)
            /\ card.nextReview = now + card.interval * HoursPerDay

\* a review that changed all four scheduler fields of an item
C24_Witness ==
    /\ Reviewed
    /\ card.id = prevCard.id
    /\ card.front = prevCard.front
    /\ card.easeFactor # prevCard.easeFactor
    /\ card.interval # prevCard.interval
    /\ card.repetitions # prevCard.repetitions
    /\ card.nextReview # prevCard.nextReview
    /\ card.nextReview = now + card.interval * HoursPerDay

\* the handlers of a session schedule a copy: the item objects the manager
\* holds (pool and working set) are the same after a submission
C24_InputUnmodified ==
    [][op' \in {"checkTestAnswer", "rateFlashcard", "checkLearnAnswer"} =>
          /\ cards' = cards
          /\ Len(testCards') = Len(testCards)
               => testCards' = testCards]_vars

-----------------------------------------------------------------------------
(* One card from its creation, changed by calculateNextReview only *)

\* db.createCard(setId, front, back): the card as created
InitDefault ==
    /\ now = HoursPerDay
    /\ card = createCard(1, HoursPerDay)
    /\ deck = << >>
    /\ op = "init"
    /\ arg = 0
    /\ prevCard = card
    /\ prevDeck = << >>
    /\ ret = 0
    /\ cardStatus = NoStatus
    /\ calls = 0
    /\ NoSession

\* card = SRSAlgorithm.calculateNextReview(card, quality), quality in 0 .. 5
Review(quality) ==
    /\ calls < MaxReviews
    /\ calls' = calls + 1
    /\ prevCard' = card
    /\ arg' = quality
    /\ card' = calculateNextReview(card, quality, now)
    /\ op' = "calculateNextReview"
    /\ UNCHANGED <<now, deck, prevDeck, ret, cardStatus>>
    /\ UNCHANGED <<dbVars, managerVars>>

NextDefault ==
    \/ \E quality \in 0 .. 5 : Review(quality)
    \/ Tick

SpecDefault == InitDefault /\ [][NextDefault]_vars

-----------------------------------------------------------------------------
(* An abandoned session: the study page is left before the session ends *)

\* the page is closed or left: the manager, a global of the page, is
\* discarded with its suspended handlers; no handler runs on leaving
Abandon ==
    /\ phase \in {"loaded", "starting", "active", "ending"}
    /\ ~redirect
    /\ phase' = "unloaded"
    /\ op' = "abandon"
    /\ UNCHANGED <<now, srsVars, dbVars>>
    /\ UNCHANGED <<mode, cards, testTargetCount, testCards, currentIndex,
                   correctCards, incorrectCards, stats, sessionId, redirect,
                   submitVisible, nextVisible, answer, pending, presented,
                   lastDraw, resubmits>>

\* the home page reads the statistics of the set after the study page is left
StatisticsAfterLeaving ==
    /\ phase \in {"unloaded", "complete"}
    /\ op # "getSetStatistics"
    /\ GetSetStatistics

NextAbandon ==
    \/ AnswerOnceStep
    \/ Unload
    \/ Abandon
    \/ StatisticsAfterLeaving

SpecAbandon == InitTest /\ [][NextAbandon]_vars

-----------------------------------------------------------------------------
(* Submissions and abandoned sessions *)

\* C25: submissions are atomic: every presented question adds exactly one to
\* cardsStudied and writes exactly one performance record, so in every state
\* cardsStudied = correctCount + incorrectCount, cardsStudied and the number
\* of performance records are at most the number of questions presented,
\* and cardsStudied is at most the target count T.
C25_AtomicSubmissions ==
    /\ stats.cardsStudied = stats.correctCount + stats.incorrectCount
    /\ stats.cardsStudied <= presented
    /\ Len(performance) <= presented
    /\ stats.cardsStudied <= TargetCount(testTargetCount, Len(cards))

\* one question was presented and counted twice
C25_CountedTwice ==
    /\ presented = 1
    /\ stats.cardsStudied = 2
    /\ Len(performance) = 2
    /\ TargetCount(testTargetCount, Len(cards)) = 1

\* the study page was left before the session was complete
Abandoned == phase = "unloaded" /\ ~redirect

\* C26: an abandoned session leaves nothing in storage: after the page is
\* left before COMPLETE the store holds no record of the session, and the
\* statistics of the set (totalSessions, accuracy) are those of the set
\* without the session.
C26_AbandonLeavesNothing ==
    Abandoned =>
        /\ sessions = << >>
        /\ op = "getSetStatistics" =>
              /\ setStats.totalSessions = getSetStatistics(dbCards, << >>).totalSessions
              /\ setStats.accuracy = getSetStatistics(dbCards, << >>).accuracy

\* an abandoned session is counted: it stays in the store with endTime null
C26_CountedSession ==
    /\ Abandoned
    /\ op = "getSetStatistics"
    /\ Len(sessions) = 1 /\ sessions[1].endTime = 0
    /\ setStats.totalSessions = 1
    /\ performance # << >>

\* what does hold: an abandoned session does not enter the accuracy
C26_AccuracyUnaffected ==
    (Abandoned /\ op = "getSetStatistics") =>
        /\ setStats.accuracy = Divide(0, 1)
        /\ setStats.totalCorrect = 0 /\ setStats.totalIncorrect = 0

-----------------------------------------------------------------------------
(* Replenishment draws (specification SpecTest) *)

\* the number of positions of the draw that hold the card with this id
TimesDrawn(draw, id) == Cardinality({k \in 1 .. Len(draw) : draw[k].id = id})

\* draw takes its quota from the set cyclically in insertion order
IsCyclicDrawOf(draw, set, quota) ==
    LET m == Len(set)
    IN  /\ Len(draw) = IF m = 0 THEN 0 ELSE quota
        /\ \A k \in 1 .. Len(draw) : draw[k] = set[((k - 1) % m) + 1]
        /\ \A a, b \in 1 .. m :
              TimesDrawn(draw, set[a].id) - TimesDrawn(draw, set[b].id) \in {-1, 0, 1}
        /\ m = 1 => \A k \in 1 .. Len(draw) : draw[k] = set[1]

\* C27: the cards a replenishment draws from a correctness set are taken
\* cyclically in the set's insertion order (draw k, counted from 0, is
\* element k mod m of a set of size m): within the set's quota two members
\* are drawn numbers of times that differ by at most one, and a set of one
\* member is repeated for its whole quota.
C27_CyclicInsertionOrder ==
    Replenished =>
        LET incorrectCount == CeilThreeQuarters(lastDraw.count)
        IN  /\ IsCyclicDrawOf(lastDraw.fromIncorrect, incorrectCards, incorrectCount)
            /\ IsCyclicDrawOf(lastDraw.fromCorrect, correctCards,
                              lastDraw.count - incorrectCount)

\* a set of two members from which three cards were drawn: the first member
\* twice, the second once
C27_Witness ==
    /\ Replenished
    /\ Len(incorrectCards) = 2
    /\ Len(lastDraw.fromIncorrect) = 3
    /\ TimesDrawn(lastDraw.fromIncorrect, incorrectCards[1].id) = 2
    /\ TimesDrawn(lastDraw.fromIncorrect, incorrectCards[2].id) = 1

\* a set of one member repeated for a quota of three
C27_OneMemberRepeated ==
    /\ Replenished
    /\ Len(incorrectCards) = 1
    /\ Len(lastDraw.fromIncorrect) >= 3
    /\ \A k \in 1 .. Len(lastDraw.fromIncorrect) :
          lastDraw.fromIncorrect[k] = incorrectCards[1]

-----------------------------------------------------------------------------
(* The schedule of a card from its creation (specification SpecDefault) *)

\* C28: a card created with the defaults and changed only by
\* calculateNextReview with qualities 0 .. 5 has interval 0 exactly when its
\* repetitions are 0, interval 1 at repetitions 1, interval 6 at repetitions
\* 2 and an interval of at least 8 from repetitions 3 on, and a successful
\* review never returns a smaller interval than the card had before it.
C28_DefaultItemSchedule ==
    /\ card.interval = 0 <=> card.repetitions = 0
    /\ card.repetitions = 1 => card.interval = 1
    /\ card.repetitions = 2 => card.interval = 6
    /\ card.repetitions >= 3 => card.interval >= 8
    /\ (Reviewed /\ arg >= 3) => card.interval >= prevCard.interval

\* the third success in a row of a card at the least ease factor: 6 days
\* become 8
C28_Witness ==
    /\ Reviewed /\ arg >= 3
    /\ prevCard.repetitions = 2 /\ prevCard.easeFactor = 130
    /\ card.repetitions = 3 /\ card.interval = 8

\* a lapse after three successes returns the card to interval 0
C28_Lapse ==
    /\ Reviewed /\ arg < 3
    /\ prevCard.repetitions >= 3
    /\ card.repetitions = 0 /\ card.interval = 0

-----------------------------------------------------------------------------
(* Ease factors in learn and test mode (specification SpecStudy) *)

\* the set was loaded with every card at the default ease factor
DefaultSet == cards # << >> /\ \A k \in 1 .. Len(cards) : cards[k].easeFactor = 250

\* a step of learn or test mode that raises no stored easeFactor
EaseNotRaised ==
    mode \in {"learn", "test"} =>
        \A id \in DOMAIN dbCards :
            (dbCards'[id].easeFactor <= dbCards[id].easeFactor)

\* C29: learn and test mode pass only quality 4 or 1 to the scheduler, so
\* no step of these modes increases the easeFactor of a stored card, and in
\* a set whose cards start at the default easeFactor 2.5 no card is ever
\* mastered (easeFactor > 2.5 and interval >= 1): masteryLevel stays 0.
C29_EaseNeverIncreases ==
    /\ [][EaseNotRaised]_vars
    /\ []((mode \in {"learn", "test"} /\ DefaultSet) =>
             /\ Mastered = {}
             /\ IsZero(getSetStatistics(dbCards, sessions).masteryLevel))

\* a card answered incorrectly and then, presented again, correctly: the
\* second answer stored the easeFactor of the load-time card, a higher one
C29_EaseRaised ==
    /\ mode = "test"
    /\ Len(cards) = 1 /\ cards[1].easeFactor = 250
    /\ Len(performance) = 2
    /\ ~performance[1].correct /\ performance[2].correct
    /\ pending = << >>
    /\ dbCards[1].easeFactor = 250

\* the consequence holds: no card of a default set becomes mastered
C29_MasteryStaysZero ==
    (mode \in {"learn", "test"} /\ DefaultSet) =>
        /\ Mastered = {}
        /\ IsZero(getSetStatistics(dbCards, sessions).masteryLevel)

\* every schedule stored in learn and test mode is computed with quality 4
\* or 1 from the card as loaded, so it is never above the load-time value
C29_NeverAboveLoaded ==
    (mode \in {"learn", "test"} /\ cards # << >>) =>
        \A k \in 1 .. Len(cards) :
            dbCards[cards[k].id].easeFactor <= cards[k].easeFactor

-----------------------------------------------------------------------------
(* The working set of a test session (specification SpecTest) *)

\* the target count T of the session: the count parameter, or the size of
\* the pool when there is none
SessionTarget == TargetCount(testTargetCount, Len(cards))

\* a test session whose working set was prepared from a non-empty pool
InTestSession ==
    /\ mode = "test"
    /\ cards # << >>
    /\ testCards # << >>

\* a step that changes the working set is a replenishment: the working set
\* is exhausted and shorter than T, and the step appends the whole deficit
ReplenishStep ==
    (InTestSession /\ testCards' # testCards) =>
        /\ currentIndex = Len(testCards) - 1
        /\ Len(testCards) < SessionTarget
        /\ IsPrefix(testCards, testCards')
        /\ Len(testCards') = SessionTarget
        /\ currentIndex' = currentIndex + 1

\* C30: in a test session with a non-empty pool and T >= 1 the working set
\* changes only by a replenishment, which happens only when the working set
\* is exhausted with fewer than T cards and appends the whole deficit at
\* once, leaving T cards (so that no second replenishment can follow); in
\* every state the working set has at most T cards and the current index
\* points inside it.
C30_ReplenishOnce ==
    /\ [][ReplenishStep]_vars
    /\ [](InTestSession =>
            /\ SessionTarget >= 1
            /\ Len(testCards) <= SessionTarget
            /\ currentIndex \in 0 .. Len(testCards) - 1)

\* a replenishment that brought a working set of two cards to T = 5
C30_Witness ==
    /\ Replenished
    /\ InTestSession
    /\ testTargetCount = 5
    /\ Len(cards) = 2
    /\ lastDraw.count = 3
    /\ Len(testCards) = 5
    /\ currentIndex = 2

====
